---- MODULE Spec2Model ----
(***************************************************************************)
(* Model of the visualization sandbox of analytics-ai:                     *)
(*   src/api/visualization_handler.py  VisualizationHandler                *)
(*   src/api/psql_agent.py             DbAgent execute_query tool          *)
(*                                                                         *)
(* Python values are records tagged by `kind`.  A code string is           *)
(*   [kind |-> "str", lead, trail, src]                                    *)
(* with `lead`/`trail` the number of whitespace characters around the      *)
(* source text `src`; `src` is empty, unparseable text, or text that       *)
(* ast.parse turns into the syntax tree `src.nodes`.  A tree is a sequence *)
(* of nodes, each naming its parent by index (0 is the Module root).       *)
(***************************************************************************)
EXTENDS Integers, Sequences, FiniteSets, TLC

VARIABLES
    vcode,                  \* argument of a direct validate_code call
    vresult,                \* what that call returned or raised
    pc,                     \* per thread: position in execute_query / execute_visualization
    query_ok,               \* per thread: outcome of the SELECT guard and the database query
    viz_code,               \* per thread: execute_query's local viz_code
    viz_data,               \* per thread: execute_query's local viz_data
    code,                   \* per thread: the code argument of execute_visualization
    data,                   \* per thread: str(results) handed to execute_visualization
    temp_dir,               \* per thread: execute_visualization's local temp_dir
    result,                 \* per thread: CompletedProcess of subprocess.run
    exc,                    \* per thread: exception in flight
    retval,                 \* per thread: value execute_visualization is returning
    response,               \* per thread: the tool's JSON response
    current_visualization,  \* VisualizationHandler.current_visualization
    dirs,                   \* temporary directories that exist on disk
    files,                  \* per directory: content of visualization.py, or NoFile
    procs                   \* child processes that are running

vars == <<vcode, vresult, pc, query_ok, viz_code, viz_data, code, data, temp_dir, result,
          exc, retval, response, current_visualization, dirs, files, procs>>

(***************************************************************************)
(* Bounds                                                                  *)
(***************************************************************************)
MaxNodes == 2       \* nodes below the Module root in an enumerated syntax tree
MaxLines == 2       \* lines in an enumerated child stdout

Threads == {1, 2}
DirNames == {"tmpA", "tmpB"}

(***************************************************************************)
(* Python values                                                           *)
(***************************************************************************)
PyNone == [kind |-> "none"]
PyBytes(b) == [kind |-> "bytes", val |-> b]
PyInt(i) == [kind |-> "int", val |-> i]
PyList(n) == [kind |-> "list", len |-> n]

NoExc == "NoExc"
NoDir == "NoDir"
NoFile == [kind |-> "nofile"]
NoResult == [kind |-> "noresult"]
NoResponse == [kind |-> "noresponse"]
NotCalled == [kind |-> "notcalled"]

EmptySrc == [form |-> "empty"]
GarbageSrc == [form |-> "garbage"]
TreeSrc(ns) == [form |-> "tree", nodes |-> ns]
PyStr(l, s, t) == [kind |-> "str", lead |-> l, trail |-> t, src |-> s]

\* bool(v)
Truthy(v) ==
    CASE v.kind = "none" -> FALSE
      [] v.kind = "int" -> v.val # 0
      [] v.kind = "bytes" -> Len(v.val) > 0
      [] v.kind = "list" -> v.len > 0
      [] v.kind = "str" -> v.lead + v.trail > 0 \/ v.src.form # "empty"
      [] OTHER -> TRUE

\* str.strip() on a code string
StripCode(c) == [c EXCEPT !.lead = 0, !.trail = 0]

(***************************************************************************)
(* Syntax trees                                                            *)
(***************************************************************************)
NoFunc == [cls |-> "", id |-> ""]
Node(ty, names, module, func) ==
    [type |-> ty, names |-> names, module |-> module, func |-> func]

Import(names) == Node("Import", names, <<>>, NoFunc)
\* module is <<>> for `from . import y` (node.module is None)
ImportFrom(module) == Node("ImportFrom", <<>>, module, NoFunc)
CallName(id) == Node("Call", <<>>, <<>>, [cls |-> "Name", id |-> id])
CallAttr(id) == Node("Call", <<>>, <<>>, [cls |-> "Attribute", id |-> id])
Plain(ty) == Node(ty, <<>>, <<>>, NoFunc)

StmtTypes == {"Import", "ImportFrom", "FunctionDef", "AsyncFunctionDef", "ClassDef", "If"}
ExprTypes == {"Call", "Lambda"}
\* node types whose body holds statements, and node types that hold expressions only
StmtParents == {"Module", "FunctionDef", "AsyncFunctionDef", "ClassDef", "If"}
ExprParents == StmtParents \cup {"Call", "Lambda"}

CanContain(pty, cty) ==
    \/ cty \in StmtTypes /\ pty \in StmtParents
    \/ cty \in ExprTypes /\ pty \in ExprParents

NodeVariants ==
    { Import(<< <<"pandas">> >>),
      Import(<< <<"os">> >>),
      Import(<< <<"matplotlib", "pyplot">> >>),
      Import(<< <<"os", "path">> >>),
      Import(<< <<"numpy">>, <<"subprocess">> >>),
      ImportFrom(<<>>),
      ImportFrom(<<"decimal">>),
      ImportFrom(<<"os", "path">>),
      CallName("open"), CallName("__import__"), CallName("exec"), CallName("eval"),
      CallName("print"), CallAttr("bar"),
      Plain("FunctionDef"), Plain("AsyncFunctionDef"), Plain("ClassDef"),
      Plain("Lambda"), Plain("If") }

ModuleNode == Plain("Module")

\* a tree: nodes[i] with parent par[i] in 0..i-1, 0 being the Module
TypeAt(ns, i) == IF i = 0 THEN "Module" ELSE ns[i].node.type

WellFormedTree(ns) ==
    \A i \in 1..Len(ns) :
        /\ ns[i].parent \in 0..(i - 1)
        /\ CanContain(TypeAt(ns, ns[i].parent), ns[i].node.type)

TreesOfSize(n) ==
    { ns \in [1..n -> [node : NodeVariants, parent : 0..(n - 1)]] : WellFormedTree(ns) }

Trees == UNION { TreesOfSize(n) : n \in 0..MaxNodes }

(***************************************************************************)
(* validate_code                                                           *)
(***************************************************************************)
ALLOWED_IMPORTS ==
    { <<"pandas">>, <<"matplotlib", "pyplot">>, <<"seaborn">>, <<"numpy">>,
      <<"matplotlib">>, <<"io">>, <<"base64">>, <<"decimal">> }

\* name.split('.')[0], as the dotted name it is compared with
TopLevel(dotted) == << dotted[1] >>

\* ast.iter_child_nodes, in source order
RECURSIVE ChildrenFrom(_, _, _)
ChildrenFrom(ns, p, i) ==
    IF i > Len(ns) THEN <<>>
    ELSE (IF ns[i].parent = p THEN <<i>> ELSE <<>>) \o ChildrenFrom(ns, p, i + 1)

\* ast.walk: breadth first from the root, as a sequence of node indices
RECURSIVE WalkQueue(_, _)
WalkQueue(ns, todo) ==
    IF todo = <<>> THEN <<>>
    ELSE <<Head(todo)>> \o WalkQueue(ns, Tail(todo) \o ChildrenFrom(ns, Head(todo), 1))

Walk(ns) == WalkQueue(ns, <<0>>)

NodeAt(ns, i) == IF i = 0 THEN ModuleNode ELSE ns[i].node

\* the body of the for loop: the ValueError it raises for one node, or NoExc
CheckNode(node) ==
    IF node.type = "Import" THEN
        IF \E k \in 1..Len(node.names) : TopLevel(node.names[k]) \notin ALLOWED_IMPORTS
        THEN "ValueError" ELSE NoExc
    ELSE IF node.type = "ImportFrom" THEN
        IF node.module # <<>> /\ TopLevel(node.module) \notin ALLOWED_IMPORTS
        THEN "ValueError" ELSE NoExc
    ELSE IF node.type = "Call" THEN
        IF node.func.cls = "Name" /\ node.func.id \in {"open", "__import__"}
        THEN "ValueError" ELSE NoExc
    \* the exec/eval branch tests ast.Call again and is never taken
    ELSE IF node.type = "Call" /\ node.func.cls = "Name" THEN
        IF node.func.id \in {"exec", "eval"} THEN "ValueError" ELSE NoExc
    ELSE IF node.type \in {"FunctionDef", "ClassDef"} THEN "ValueError"
    ELSE NoExc

\* the for loop over ast.walk(tree): the first exception raised, or NoExc
RECURSIVE CheckAll(_, _)
CheckAll(ns, order) ==
    IF order = <<>> THEN NoExc
    ELSE IF CheckNode(NodeAt(ns, Head(order))) # NoExc
         THEN CheckNode(NodeAt(ns, Head(order)))
         ELSE CheckAll(ns, Tail(order))

\* ast.parse(code): the exception it raises, or NoExc
ParseExc(src) == IF src.form = "garbage" THEN "SyntaxError" ELSE NoExc

\* the try block: the exception that leaves it, or NoExc when it returns True
TryBody(c) ==
    IF ParseExc(c.src) # NoExc THEN ParseExc(c.src)
    ELSE CheckAll(c.src.nodes, Walk(c.src.nodes))

\* classes derived from Exception, which `except Exception` catches
ExceptionClasses == {"SyntaxError", "ValueError", "RuntimeError", "OSError", "binascii.Error"}

PyBool(b) == [kind |-> "bool", val |-> b]
Raised(e) == [kind |-> "raise", exc |-> e]

\* the except clauses: SyntaxError, then Exception; both return False
HandlersOnlySyntaxError(e) ==
    IF e = "SyntaxError" THEN PyBool(FALSE) ELSE Raised(e)

Handlers(e) ==
    IF e = "SyntaxError" THEN PyBool(FALSE)
    ELSE IF e \in ExceptionClasses THEN PyBool(FALSE)
    ELSE Raised(e)

\* validate_code(code): PyBool(b) when it returns b, Raised(e) when it raises e
validate_code(c) ==
    IF ~Truthy(c) \/ c.kind # "str" THEN PyBool(FALSE)
    ELSE IF ~Truthy(StripCode(c)) THEN PyBool(FALSE)
    ELSE IF TryBody(StripCode(c)) = NoExc THEN PyBool(TRUE)
    ELSE Handlers(TryBody(StripCode(c)))

\* `if not self.validate_code(code)` in execute_visualization
Accepted(c) == validate_code(c) = PyBool(TRUE)

(***************************************************************************)
(* Inputs                                                                  *)
(***************************************************************************)
Sources == {EmptySrc, GarbageSrc} \cup { TreeSrc(ns) : ns \in Trees }

NonStrings == {PyNone, PyInt(0), PyInt(7), PyBytes(<<>>), PyBytes(<<105>>), PyList(0), PyList(1)}

Strings == { PyStr(l, s, t) : l \in 0..1, s \in Sources, t \in 0..1 }

CodeInputs == NonStrings \cup Strings

(***************************************************************************)
(* Child stdout and base64                                                 *)
(* A text is a sequence of one-character strings.                          *)
(***************************************************************************)
Whitespace == {" ", "\n"}
Pad == "="

\* the base64 alphabet, restricted to the characters the model prints
B64Chars == {"A", "B", "Q", "/"}
B64Value(ch) ==
    CASE ch = "A" -> 0
      [] ch = "B" -> 1
      [] ch = "Q" -> 16
      [] ch = "/" -> 63

\* str.strip()
RECURSIVE LStrip(_)
LStrip(s) == IF s # <<>> /\ Head(s) \in Whitespace THEN LStrip(Tail(s)) ELSE s

RECURSIVE RStrip(_)
RStrip(s) ==
    IF s # <<>> /\ s[Len(s)] \in Whitespace THEN RStrip(SubSeq(s, 1, Len(s) - 1)) ELSE s

Strip(s) == RStrip(LStrip(s))

\* binascii.a2b_base64 in its default, non-strict mode: characters outside
\* the alphabet are skipped, a complete pad sequence ends the input, and a
\* quad left open at the end of the input is an error
RECURSIVE A2B(_, _, _, _, _)
A2B(s, quad_pos, leftchar, pads, out) ==
    IF s = <<>> THEN
        IF quad_pos # 0 THEN Raised("binascii.Error") ELSE PyBytes(out)
    ELSE IF Head(s) = Pad THEN
        IF quad_pos >= 2 /\ quad_pos + pads + 1 >= 4 THEN PyBytes(out)
        ELSE A2B(Tail(s), quad_pos, leftchar,
                 IF quad_pos >= 2 THEN pads + 1 ELSE pads, out)
    ELSE IF Head(s) \notin B64Chars THEN A2B(Tail(s), quad_pos, leftchar, pads, out)
    ELSE
        CASE quad_pos = 0 -> A2B(Tail(s), 1, B64Value(Head(s)), 0, out)
          [] quad_pos = 1 ->
                A2B(Tail(s), 2, B64Value(Head(s)) % 16, 0,
                    Append(out, (leftchar * 4 + B64Value(Head(s)) \div 16) % 256))
          [] quad_pos = 2 ->
                A2B(Tail(s), 3, B64Value(Head(s)) % 4, 0,
                    Append(out, (leftchar * 16 + B64Value(Head(s)) \div 4) % 256))
          [] quad_pos = 3 ->
                A2B(Tail(s), 0, 0, 0,
                    Append(out, (leftchar * 64 + B64Value(Head(s))) % 256))

\* base64.b64decode(s): PyBytes(b), or Raised("binascii.Error")
b64decode(s) == A2B(s, 0, 0, 0, <<>>)

\* the lines the child prints
Lines ==
    { <<>>,
      <<"A", "A", "A", "B">>,
      <<"A", "Q", "=", "=">>,
      <<"A", "B">>,
      <<"!">> }

RECURSIVE JoinLines(_)
JoinLines(ls) ==
    IF ls = <<>> THEN <<>>
    ELSE IF Len(ls) = 1 THEN ls[1]
    ELSE ls[1] \o <<"\n">> \o JoinLines(Tail(ls))

LineSeqs == UNION { [1..n -> Lines] : n \in 0..MaxLines }

\* what a child can have written to its stdout when it exits: nothing, or
\* printed lines, each ended by a newline
Stdouts == {<<>>} \cup { JoinLines(ls) \o <<"\n">> : ls \in LineSeqs \ {<<>>} }

(***************************************************************************)
(* Inputs of the execute_query tool                                        *)
(***************************************************************************)
ScenarioA == TreeSrc(<< [node |-> Import(<< <<"os">> >>), parent |-> 0],
                        [node |-> CallAttr("system"), parent |-> 0] >>)
ScenarioB == TreeSrc(<< [node |-> CallAttr("bar"), parent |-> 0],
                        [node |-> CallAttr("title"), parent |-> 0] >>)
ScenarioD == TreeSrc(<< [node |-> Plain("FunctionDef"), parent |-> 0] >>)
PrintThenPlot == TreeSrc(<< [node |-> CallName("print"), parent |-> 0],
                            [node |-> CallAttr("bar"), parent |-> 0] >>)
EvalCall == TreeSrc(<< [node |-> CallName("eval"), parent |-> 0] >>)
AsyncDef == TreeSrc(<< [node |-> Plain("AsyncFunctionDef"), parent |-> 0] >>)
RelativeImport == TreeSrc(<< [node |-> ImportFrom(<<>>), parent |-> 0] >>)
NestedImport == TreeSrc(<< [node |-> Plain("If"), parent |-> 0],
                           [node |-> Import(<< <<"os">> >>), parent |-> 1] >>)

\* viz_response.data: the text 'None' (read as None) or generated code
VizCodes ==
    {PyNone} \cup
    { PyStr(0, s, 0) : s \in {EmptySrc, GarbageSrc, ScenarioA, ScenarioB, ScenarioD,
                              PrintThenPlot, EvalCall, AsyncDef, RelativeImport,
                              NestedImport} } \cup
    { PyStr(1, s, 0) : s \in {EmptySrc, ScenarioB} }

\* str(results)
ResultTexts == {"[]", "[{'a': 1}]"}

\* the SELECT guard and the database query of execute_query
QueryOutcomes == {"ok", "not_select", "PostgresError"}

(***************************************************************************)
(* execute_visualization and the execute_query tool, step by step          *)
(***************************************************************************)
\* TEMPLATE.format(code=f"data = {data}\n" + code)
TEMPLATE(body) == [prologue |-> "setup", body |-> body, epilogue |-> "savefig"]
full_code(d, c) == [assign |-> d, source |-> c]

\* the `data` text read as the source it becomes in `data = {data}`
DataText(d) == PyStr(0, [form |-> "literal", text |-> d], 0)

\* the caller-supplied texts in a rendered script: the data text and the
\* code string as passed in
SuppliedTexts(script) == { DataText(script.body.assign), script.body.source }

\* the texts validate_code has parsed and accepted for a call: the
\* stripped code string, and nothing else
ValidatedTexts(c) == IF Accepted(c) THEN { StripCode(c) } ELSE {}

\* tool entry: the guard, the query, the viz agent's answer, `if viz_code:`
ExecuteQueryBegin(t, q, c, rows) ==
    /\ pc[t] = "idle"
    /\ query_ok' = [query_ok EXCEPT ![t] = q]
    /\ IF q # "ok"
       THEN /\ pc' = [pc EXCEPT ![t] = "eq_raised"]
            /\ exc' = [exc EXCEPT ![t] = "ModelRetry"]
            /\ UNCHANGED <<viz_code, data>>
       ELSE /\ viz_code' = [viz_code EXCEPT ![t] = c]
            /\ data' = [data EXCEPT ![t] = rows]
            /\ exc' = [exc EXCEPT ![t] = NoExc]
            /\ pc' = [pc EXCEPT ![t] = IF Truthy(c) THEN "ev_validate" ELSE "eq_respond"]
    /\ viz_data' = [viz_data EXCEPT ![t] = PyNone]
    /\ code' = [code EXCEPT ![t] = IF q = "ok" /\ Truthy(c) THEN c ELSE PyNone]
    /\ temp_dir' = [temp_dir EXCEPT ![t] = NoDir]
    /\ result' = [result EXCEPT ![t] = NoResult]
    /\ retval' = [retval EXCEPT ![t] = PyNone]
    /\ response' = [response EXCEPT ![t] = NoResponse]
    /\ UNCHANGED <<vcode, vresult, current_visualization, dirs, files, procs>>

\* `if not self.validate_code(code): raise ValueError(...)`
EvValidateNoGate(t) ==
    /\ pc[t] = "ev_validate"
    /\ pc' = [pc EXCEPT ![t] = "ev_mkdtemp"]
    /\ UNCHANGED <<vcode, vresult, query_ok, viz_code, viz_data, data, code, temp_dir,
                   result, exc, retval, response, current_visualization, dirs, files, procs>>

EvValidate(t) ==
    /\ pc[t] = "ev_validate"
    /\ IF Accepted(code[t])
       THEN /\ pc' = [pc EXCEPT ![t] = "ev_mkdtemp"]
            /\ UNCHANGED exc
       ELSE /\ pc' = [pc EXCEPT ![t] = "ev_done"]
            /\ exc' = [exc EXCEPT ![t] = "ValueError"]
    /\ UNCHANGED <<vcode, vresult, query_ok, viz_code, viz_data, data, code, temp_dir,
                   result, retval, response, current_visualization, dirs, files, procs>>

\* a directory name taken without the exclusive create of mkdtemp
EvMkdtempAnyName(t, d, ok) ==
    /\ pc[t] = "ev_mkdtemp"
    /\ IF ok
       THEN /\ dirs' = dirs \cup {d}
            /\ temp_dir' = [temp_dir EXCEPT ![t] = d]
            /\ pc' = [pc EXCEPT ![t] = "ev_write"]
            /\ UNCHANGED exc
       ELSE /\ pc' = [pc EXCEPT ![t] = "ev_done"]
            /\ exc' = [exc EXCEPT ![t] = "OSError"]
            /\ UNCHANGED <<dirs, temp_dir>>
    /\ UNCHANGED <<vcode, vresult, query_ok, viz_code, viz_data, data, code,
                   result, retval, response, current_visualization, files, procs>>

\* `with tempfile.TemporaryDirectory() as temp_dir`: a directory under a
\* name not in use, or OSError when the host cannot create one
EvMkdtemp(t, d, ok) ==
    /\ pc[t] = "ev_mkdtemp"
    /\ IF ok
       THEN /\ d \notin dirs
            /\ dirs' = dirs \cup {d}
            /\ temp_dir' = [temp_dir EXCEPT ![t] = d]
            /\ pc' = [pc EXCEPT ![t] = "ev_write"]
            /\ UNCHANGED exc
       ELSE /\ pc' = [pc EXCEPT ![t] = "ev_done"]
            /\ exc' = [exc EXCEPT ![t] = "OSError"]
            /\ UNCHANGED <<dirs, temp_dir>>
    /\ UNCHANGED <<vcode, vresult, query_ok, viz_code, viz_data, data, code,
                   result, retval, response, current_visualization, files, procs>>

\* `with open(script_path, 'w') as f: f.write(script_content)`
EvWrite(t, ok) ==
    /\ pc[t] = "ev_write"
    /\ IF ok
       THEN /\ files' = [files EXCEPT ![temp_dir[t]] = TEMPLATE(full_code(data[t], code[t]))]
            /\ pc' = [pc EXCEPT ![t] = "ev_spawn"]
            /\ UNCHANGED exc
       ELSE /\ pc' = [pc EXCEPT ![t] = "ev_cleanup"]
            /\ exc' = [exc EXCEPT ![t] = "OSError"]
            /\ UNCHANGED files
    /\ UNCHANGED <<vcode, vresult, query_ok, viz_code, viz_data, data, code, temp_dir,
                   result, retval, response, current_visualization, dirs, procs>>

\* subprocess.run starts the child on script_path with cwd=temp_dir, or
\* raises OSError; the inner `except Exception` prints and re-raises
EvSpawn(t, ok) ==
    /\ pc[t] = "ev_spawn"
    /\ IF ok
       THEN /\ procs' = procs \cup {[owner |-> t, cwd |-> temp_dir[t],
                                     script |-> files[temp_dir[t]]]}
            /\ pc' = [pc EXCEPT ![t] = "ev_wait"]
            /\ UNCHANGED exc
       ELSE /\ pc' = [pc EXCEPT ![t] = "ev_cleanup"]
            /\ exc' = [exc EXCEPT ![t] = "OSError"]
            /\ UNCHANGED procs
    /\ UNCHANGED <<vcode, vresult, query_ok, viz_code, viz_data, data, code, temp_dir,
                   result, retval, response, current_visualization, dirs, files>>

\* subprocess.run returns once the child has exited; there is no timeout
EvChildExit(t, rc, out) ==
    /\ pc[t] = "ev_wait"
    /\ procs' = { p \in procs : p.owner # t }
    /\ result' = [result EXCEPT ![t] = [kind |-> "completed", returncode |-> rc, stdout |-> out]]
    /\ pc' = [pc EXCEPT ![t] = "ev_decode"]
    /\ UNCHANGED <<vcode, vresult, query_ok, viz_code, viz_data, data, code, temp_dir,
                   exc, retval, response, current_visualization, dirs, files>>

\* the return-code test and `return base64.b64decode(result.stdout.strip())`
Decode(res) ==
    IF res.returncode # 0 THEN Raised("RuntimeError")
    ELSE b64decode(Strip(res.stdout))

EvDecode(t) ==
    /\ pc[t] = "ev_decode"
    /\ IF Decode(result[t]).kind = "raise"
       THEN /\ exc' = [exc EXCEPT ![t] = Decode(result[t]).exc]
            /\ UNCHANGED retval
       ELSE /\ retval' = [retval EXCEPT ![t] = Decode(result[t])]
            /\ UNCHANGED exc
    /\ pc' = [pc EXCEPT ![t] = "ev_cleanup"]
    /\ UNCHANGED <<vcode, vresult, query_ok, viz_code, viz_data, data, code, temp_dir,
                   result, response, current_visualization, dirs, files, procs>>

\* TemporaryDirectory.__exit__: the directory and its contents are removed
\* whether the block returned or raised
EvCleanupKeepOnError(t) ==
    /\ pc[t] = "ev_cleanup"
    /\ dirs' = IF exc[t] = NoExc THEN dirs \ {temp_dir[t]} ELSE dirs
    /\ files' = IF exc[t] = NoExc THEN [files EXCEPT ![temp_dir[t]] = NoFile] ELSE files
    /\ pc' = [pc EXCEPT ![t] = "ev_done"]
    /\ UNCHANGED <<vcode, vresult, query_ok, viz_code, viz_data, data, code, temp_dir,
                   result, exc, retval, response, current_visualization, procs>>

EvCleanup(t) ==
    /\ pc[t] = "ev_cleanup"
    /\ dirs' = dirs \ {temp_dir[t]}
    /\ files' = [files EXCEPT ![temp_dir[t]] = NoFile]
    /\ pc' = [pc EXCEPT ![t] = "ev_done"]
    /\ UNCHANGED <<vcode, vresult, query_ok, viz_code, viz_data, data, code, temp_dir,
                   result, exc, retval, response, current_visualization, procs>>

\* `except Exception as e` of execute_query
CaughtOnlyValueError(e) == e = "ValueError"

CaughtOnlyCodeErrors(e) == e \in ExceptionClasses \ {"OSError"}

Caught(e) == e \in ExceptionClasses

\* execute_visualization has returned or raised into the try of execute_query
EqHandle(t) ==
    /\ pc[t] = "ev_done"
    /\ IF exc[t] = NoExc
       THEN /\ viz_data' = [viz_data EXCEPT ![t] = retval[t]]
            /\ pc' = [pc EXCEPT ![t] = "eq_respond"]
            /\ UNCHANGED <<viz_code, exc>>
       ELSE IF Caught(exc[t])
       THEN /\ viz_code' = [viz_code EXCEPT ![t] = PyNone]
            /\ exc' = [exc EXCEPT ![t] = NoExc]
            /\ pc' = [pc EXCEPT ![t] = "eq_respond"]
            /\ UNCHANGED viz_data
       ELSE /\ pc' = [pc EXCEPT ![t] = "eq_raised"]
            /\ UNCHANGED <<viz_code, viz_data, exc>>
    /\ UNCHANGED <<vcode, vresult, query_ok, data, code, temp_dir, result, retval,
                   response, current_visualization, dirs, files, procs>>

\* the response dict, `if viz_data:` the store into the slot, the return
EqRespond(t) ==
    /\ pc[t] = "eq_respond"
    /\ response' = [response EXCEPT ![t] =
                        [kind |-> "response",
                         results |-> data[t],
                         visualization_code |-> viz_code[t],
                         has_visualization |-> viz_data[t] # PyNone]]
    /\ current_visualization' =
           IF Truthy(viz_data[t]) THEN viz_data[t] ELSE current_visualization
    /\ pc' = [pc EXCEPT ![t] = "eq_returned"]
    /\ UNCHANGED <<vcode, vresult, query_ok, viz_code, viz_data, data, code, temp_dir,
                   result, exc, retval, dirs, files, procs>>

\* DatabaseConnection.get_current_visualization: the slot as it is, None
\* when nothing was stored; a plain attribute read, which cannot raise
get_current_visualization == current_visualization

\* websocket_endpoint and /api/chat: the image whose encoding is sent with
\* the answer, None when none is sent; the agent's result.data reports
\* has_visualization as the tool response of the call gave it
VisualizationSent(t) ==
    IF response[t].has_visualization /\ Truthy(current_visualization)
    THEN current_visualization
    ELSE PyNone

\* the tool call is over (returned or raised) and its locals are gone; the
\* agent may call the tool again
EqFinish(t) ==
    /\ pc[t] \in {"eq_returned", "eq_raised"}
    /\ pc' = [pc EXCEPT ![t] = "idle"]
    /\ query_ok' = [query_ok EXCEPT ![t] = "ok"]
    /\ viz_code' = [viz_code EXCEPT ![t] = PyNone]
    /\ viz_data' = [viz_data EXCEPT ![t] = PyNone]
    /\ data' = [data EXCEPT ![t] = "[]"]
    /\ code' = [code EXCEPT ![t] = PyNone]
    /\ temp_dir' = [temp_dir EXCEPT ![t] = NoDir]
    /\ result' = [result EXCEPT ![t] = NoResult]
    /\ exc' = [exc EXCEPT ![t] = NoExc]
    /\ retval' = [retval EXCEPT ![t] = PyNone]
    /\ response' = [response EXCEPT ![t] = NoResponse]
    /\ UNCHANGED <<vcode, vresult, current_visualization, dirs, files, procs>>

(***************************************************************************)
(* Specifications                                                          *)
(***************************************************************************)
InitRest ==
    /\ query_ok = [t \in Threads |-> "ok"]
    /\ viz_code = [t \in Threads |-> PyNone]
    /\ viz_data = [t \in Threads |-> PyNone]
    /\ data = [t \in Threads |-> "[]"]
    /\ code = [t \in Threads |-> PyNone]
    /\ temp_dir = [t \in Threads |-> NoDir]
    /\ result = [t \in Threads |-> NoResult]
    /\ exc = [t \in Threads |-> NoExc]
    /\ retval = [t \in Threads |-> PyNone]
    /\ response = [t \in Threads |-> NoResponse]
    /\ current_visualization = PyNone
    /\ dirs = {}
    /\ files = [d \in DirNames |-> NoFile]
    /\ procs = {}

\* one request at a time on one agent: the tool body never yields between
\* `execute_visualization` and the store, so thread 1 runs alone
Init ==
    /\ InitRest
    /\ vcode = NotCalled
    /\ vresult = NotCalled
    /\ pc = [t \in Threads |-> IF t = 1 THEN "idle" ELSE "off"]

Step(t) ==
    \/ \E q \in QueryOutcomes, c \in VizCodes, rows \in ResultTexts :
            ExecuteQueryBegin(t, q, c, rows)
    \/ EvValidate(t)
    \/ \E d \in DirNames, ok \in BOOLEAN : EvMkdtemp(t, d, ok)
    \/ \E ok \in BOOLEAN : EvWrite(t, ok)
    \/ \E ok \in BOOLEAN : EvSpawn(t, ok)
    \/ \E rc \in {0, 1}, out \in Stdouts : EvChildExit(t, rc, out)
    \/ EvDecode(t)
    \/ EvCleanup(t)
    \/ EqHandle(t)
    \/ EqRespond(t)
    \/ EqFinish(t)

Next == \E t \in Threads : Step(t)

Spec == Init /\ [][Next]_vars

\* the steps the interpreter takes by itself once a tool call has begun;
\* the exit of the child is not among them: subprocess.run passes no
\* timeout, so the call waits for as long as the script runs
CallStep(t) ==
    \/ EvValidate(t)
    \/ \E d \in DirNames, ok \in BOOLEAN : EvMkdtemp(t, d, ok)
    \/ \E ok \in BOOLEAN : EvWrite(t, ok)
    \/ \E ok \in BOOLEAN : EvSpawn(t, ok)
    \/ EvDecode(t)
    \/ EvCleanup(t)
    \/ EqHandle(t)
    \/ EqRespond(t)
    \/ EqFinish(t)

Fairness == \A t \in Threads : WF_vars(CallStep(t))

SpecFair == Init /\ [][Next]_vars /\ Fairness

\* two requests in flight at once, on handlers that share the disk: their
\* steps interleave at the system calls (mkdtemp, write, spawn, wait, rmtree)
ConcCodes == { PyStr(0, src, 0) : src \in {ScenarioA, ScenarioB, PrintThenPlot} }

ConcStdouts == { <<>>, <<"A", "B", "\n">>, <<"A", "A", "A", "B", "\n">> }

InitConc ==
    /\ InitRest
    /\ vcode = NotCalled
    /\ vresult = NotCalled
    /\ pc = [t \in Threads |-> "idle"]

StepConc(t) ==
    \/ \E q \in QueryOutcomes, c \in ConcCodes, rows \in ResultTexts :
            ExecuteQueryBegin(t, q, c, rows)
    \/ CallStep(t)
    \/ \E rc \in {0, 1}, out \in ConcStdouts : EvChildExit(t, rc, out)

NextConc == \E t \in Threads : StepConc(t)

SpecConc == InitConc /\ [][NextConc]_vars

\* a direct call of validate_code on any of the enumerated inputs
ValidateCall ==
    /\ vresult = NotCalled
    /\ vcode # NotCalled
    /\ vresult' = validate_code(vcode)
    /\ UNCHANGED <<vcode, pc, query_ok, viz_code, viz_data, data, code, temp_dir, result, exc,
                   retval, response, current_visualization, dirs, files, procs>>

InitValidator ==
    /\ InitRest
    /\ vcode \in CodeInputs
    /\ vresult = NotCalled
    /\ pc = [t \in Threads |-> "off"]

NextValidator == ValidateCall

SpecValidator == InitValidator /\ [][NextValidator]_vars

TypeOK ==
    /\ pc \in [Threads -> {"off", "idle", "ev_validate", "ev_mkdtemp", "ev_write", "ev_spawn",
                           "ev_wait", "ev_decode", "ev_cleanup", "ev_done", "eq_respond",
                           "eq_returned", "eq_raised"}]
    /\ dirs \subseteq DirNames
    /\ \A t \in Threads : temp_dir[t] \in DirNames \cup {NoDir}

(***************************************************************************)
(* Vocabulary of the properties                                            *)
(***************************************************************************)
\* positions inside execute_visualization, and after it
InCall == {"ev_validate", "ev_mkdtemp", "ev_write", "ev_spawn", "ev_wait", "ev_decode",
           "ev_cleanup", "ev_done"}
AfterCall == {"ev_done", "eq_respond", "eq_returned", "eq_raised"}
AfterHandle == {"eq_respond", "eq_returned", "eq_raised"}

InWithBlock == {"ev_write", "ev_spawn", "ev_wait", "ev_decode", "ev_cleanup"}
ScriptWritten == {"ev_spawn", "ev_wait", "ev_decode"}

IsTree(c) == c.kind = "str" /\ c.src.form = "tree"

\* the top-level module names an import statement names; `from . import y`
\* names no module, written <<>>
ImportedTopLevels(node) ==
    IF node.type = "Import" THEN { TopLevel(node.names[k]) : k \in 1..Len(node.names) }
    ELSE IF node.type = "ImportFrom"
         THEN { IF node.module = <<>> THEN <<>> ELSE TopLevel(node.module) }
    ELSE {}

HasDisallowedImport(c) ==
    /\ IsTree(c)
    /\ \E i \in 1..Len(c.src.nodes) :
           ImportedTopLevels(c.src.nodes[i].node) \ ALLOWED_IMPORTS # {}

HasDynamicCall(c) ==
    /\ IsTree(c)
    /\ \E i \in 1..Len(c.src.nodes) :
           /\ c.src.nodes[i].node.type = "Call"
           /\ c.src.nodes[i].node.func.cls = "Name"
           /\ c.src.nodes[i].node.func.id \in {"exec", "eval", "__import__"}

HasDefinition(c) ==
    /\ IsTree(c)
    /\ \E i \in 1..Len(c.src.nodes) :
           c.src.nodes[i].node.type \in {"FunctionDef", "AsyncFunctionDef", "ClassDef"}

\* canonical base64: quads of alphabet characters, the last one padded
\* with at most two `=`
IsValidBase64(s) ==
    /\ Len(s) > 0
    /\ Len(s) % 4 = 0
    /\ \A i \in 1..Len(s) :
           \/ s[i] \in B64Chars
           \/ s[i] = Pad /\ i >= Len(s) - 1 /\ (i = Len(s) - 1 => s[Len(s)] = Pad)

\* the text after the last newline that is followed by a non-blank line
RECURSIVE LastLine(_)
LastLine(s) ==
    IF \E i \in 1..Len(s) : s[i] = "\n"
    THEN LastLine(Tail(s))
    ELSE s

LastNonEmptyLine(s) == LastLine(Strip(s))

Completed(t) == result[t].kind = "completed"

\* the call of thread t failed because of the code: rejected by the
\* validator, non-zero exit of the child, or stdout that does not decode
CodeFailure(t) ==
    /\ code[t] # PyNone
    /\ \/ ~Accepted(code[t])
       \/ Completed(t) /\ Decode(result[t]).kind = "raise"

\* the call of thread t failed because of the host: the code was accepted
\* but no child ever ran to completion
EnvFailure(t) ==
    /\ code[t] # PyNone
    /\ Accepted(code[t])
    /\ ~Completed(t)

Degraded(t) ==
    /\ viz_code[t] = PyNone
    /\ viz_data[t] = PyNone
    /\ pc[t] = "eq_returned" =>
           /\ response[t].has_visualization = FALSE
           /\ response[t].visualization_code = PyNone

(***************************************************************************)
(* Properties                                                              *)
(***************************************************************************)
\* C1: a call whose code validate_code rejects raises ValueError having
\* created no temporary directory, written no script and spawned no child;
\* every running child runs a script whose code validate_code accepted.
C1_RejectedNeverRuns ==
    /\ \A t \in Threads :
           (pc[t] \in InCall /\ ~Accepted(code[t])) =>
               /\ pc[t] \in {"ev_validate", "ev_done"}
               /\ temp_dir[t] = NoDir
               /\ result[t] = NoResult
               /\ \A p \in procs : p.owner # t
               /\ pc[t] = "ev_done" => exc[t] = "ValueError"
    /\ \A p \in procs : Accepted(p.script.body.source)
    /\ \A d \in DirNames : files[d] # NoFile => Accepted(files[d].body.source)

C1_Witness ==
    \E t \in Threads :
        /\ pc[t] = "ev_done"
        /\ code[t].kind = "str"
        /\ ~Accepted(code[t])
        /\ exc[t] = "ValueError"

\* C2: code with an import statement, at any depth, whose top-level module
\* name is not in the allow-list is rejected by validate_code, and the call
\* never gets past validation: no directory, no script, no child.
C2_DisallowedImportNeverRuns ==
    \A t \in Threads :
        (pc[t] \in InCall /\ HasDisallowedImport(code[t])) =>
            /\ pc[t] \in {"ev_validate", "ev_done"}
            /\ temp_dir[t] = NoDir
            /\ \A p \in procs : p.owner # t

\* C3: validate_code rejects every code with a call to exec, eval or
\* __import__ anywhere in the tree.
C3_DynamicCallRejected ==
    (vresult # NotCalled /\ HasDynamicCall(vcode)) => vresult = PyBool(FALSE)

\* C4: validate_code rejects every code with a function or class
\* definition of any kind, at any depth.
C4_DefinitionRejected ==
    (vresult # NotCalled /\ HasDefinition(vcode)) => vresult = PyBool(FALSE)

\* C5: once execute_visualization has returned or raised, the temporary
\* directory of that call and the script in it no longer exist.
C5_TempDirRemoved ==
    \A t \in Threads :
        (pc[t] \in AfterCall /\ temp_dir[t] # NoDir) =>
            /\ temp_dir[t] \notin dirs
            /\ files[temp_dir[t]] = NoFile

C5_Witness ==
    \E t \in Threads :
        /\ pc[t] = "ev_done"
        /\ temp_dir[t] # NoDir
        /\ exc[t] = "binascii.Error"

\* C6: when the child exited with status zero and its stdout, trimmed, is
\* empty or is not valid base64, execute_visualization raises and returns
\* no bytes.
C6_BadStdoutRaises ==
    \A t \in Threads :
        ( /\ pc[t] \in {"ev_cleanup", "ev_done"}
          /\ Completed(t)
          /\ result[t].returncode = 0
          /\ ~IsValidBase64(Strip(result[t].stdout)) ) =>
            exc[t] # NoExc

\* C7: when the child exited with status zero and the last non-empty line
\* of its stdout is a base64 line, execute_visualization returns the
\* decoding of that line alone, whatever was printed before it.
C7_LastLineIsPayload ==
    \A t \in Threads :
        ( /\ pc[t] \in {"ev_cleanup", "ev_done"}
          /\ Completed(t)
          /\ result[t].returncode = 0
          /\ IsValidBase64(LastNonEmptyLine(result[t].stdout)) ) =>
            /\ exc[t] = NoExc
            /\ retval[t] = b64decode(LastNonEmptyLine(result[t].stdout))

\* C8: validate_code returns a boolean for every input and never raises;
\* it returns False for non-strings, for empty and whitespace-only strings
\* and for text that does not parse.
C8_ValidateTotal ==
    vresult # NotCalled =>
        /\ vresult.kind = "bool"
        /\ (vcode.kind # "str" \/ vcode.src.form \in {"empty", "garbage"}) =>
               vresult = PyBool(FALSE)

C8_Witness ==
    /\ vresult = PyBool(FALSE)
    /\ vcode.kind = "str"
    /\ vcode.src.form = "tree"

\* C9: a code-related failure of execute_visualization (validation reject,
\* non-zero exit, decode error) is caught in execute_query: the tool
\* returns, with has_visualization false and visualization_code null.
C9_CodeFailureDegrades ==
    \A t \in Threads :
        (pc[t] \in AfterHandle /\ CodeFailure(t)) =>
            /\ pc[t] # "eq_raised"
            /\ Degraded(t)

C9_Witness ==
    \E t \in Threads :
        /\ pc[t] = "eq_returned"
        /\ Completed(t)
        /\ result[t].returncode = 1
        /\ response[t].has_visualization = FALSE

\* C10 as stated: when the directory, the script or the child cannot be
\* created, the error leaves execute_query as a hard error.
C10_EnvFailurePropagates ==
    \A t \in Threads :
        (pc[t] \in AfterHandle /\ EnvFailure(t)) => pc[t] = "eq_raised"

\* C10 as amended: such a failure is raised by execute_visualization as
\* OSError and caught in execute_query like a code-related one: the tool
\* returns, with has_visualization false and visualization_code null.
C10_EnvFailureDegrades ==
    \A t \in Threads :
        /\ (pc[t] = "ev_done" /\ EnvFailure(t)) => exc[t] = "OSError"
        /\ (pc[t] \in AfterHandle /\ EnvFailure(t)) =>
               /\ pc[t] # "eq_raised"
               /\ Degraded(t)

C10_Witness ==
    \E t \in Threads :
        /\ pc[t] = "eq_returned"
        /\ EnvFailure(t)
        /\ temp_dir[t] # NoDir
        /\ response[t].has_visualization = FALSE

\* C11: every byte string execute_visualization returns replaces the slot:
\* once the tool has returned, get_current_visualization gives exactly the
\* bytes of that call.
C11_ReturnedBytesStored ==
    \A t \in Threads :
        (pc[t] = "eq_returned" /\ viz_data[t] # PyNone) =>
            get_current_visualization = viz_data[t]

\* C12: every call of execute_visualization eventually returns or raises,
\* also when the child never exits by itself.
C12_CallTerminates ==
    \A t \in Threads : (pc[t] = "ev_validate") ~> (pc[t] \in AfterCall)

\* C13: calls in flight together are independent under every interleaving:
\* each has a temporary directory of its own, which exists until its own
\* cleanup and holds the script rendered from its own data and code; each
\* waits for one child, which runs that script in that directory; and the
\* outcome of a call is the decoding of what its own child printed.
C13_CallsIndependent ==
    /\ \A t \in Threads :
           /\ pc[t] \in InWithBlock =>
                  /\ temp_dir[t] \in dirs
                  /\ \A u \in Threads \ {t} :
                         pc[u] \in InWithBlock => temp_dir[u] # temp_dir[t]
           /\ pc[t] \in ScriptWritten =>
                  files[temp_dir[t]] = TEMPLATE(full_code(data[t], code[t]))
           /\ pc[t] = "ev_wait" =>
                  { p \in procs : p.owner = t } =
                      { [owner |-> t, cwd |-> temp_dir[t],
                         script |-> TEMPLATE(full_code(data[t], code[t]))] }
           /\ (pc[t] = "ev_done" /\ Completed(t)) =>
                  IF Decode(result[t]).kind = "raise"
                  THEN exc[t] = Decode(result[t]).exc
                  ELSE exc[t] = NoExc /\ retval[t] = Decode(result[t])
    /\ \A p \in procs : pc[p.owner] = "ev_wait"

C13_Witness ==
    \E t \in Threads, u \in Threads :
        /\ pc[t] = "ev_wait"
        /\ pc[u] = "ev_cleanup"
        /\ Completed(u)
        /\ code[t] # code[u]

\* C14: what the transport presents with the answer of a tool call is
\* nothing or the image that same call produced, never the image an
\* earlier call left in the slot.
C14_SentImageIsOwn ==
    \A t \in Threads :
        pc[t] = "eq_returned" => VisualizationSent(t) \in {PyNone, viz_data[t]}

\* C15: every caller-supplied text in the script a call has written was
\* accepted by validate_code in exactly the form in which it is written.
C15_ScriptTextValidated ==
    \A t \in Threads :
        pc[t] \in ScriptWritten =>
            SuppliedTexts(files[temp_dir[t]]) \subseteq ValidatedTexts(code[t])

====
